---- MODULE Spec2Model ----
(***************************************************************************)
(* Model of src/market_dashboard.py: the holiday calendar, the session     *)
(* clock, the CSV session store and the refresh loop of the dashboard.     *)
(*                                                                         *)
(* Time.  The real timeline is counted in clock units (UnitsPerMs to a     *)
(* millisecond) of Central STANDARD time since 00:00 of the first day of   *)
(* the modelled calendar window (`epoch`).  A Python datetime carrying     *)
(* tzinfo=TZ is the wall clock reading of America/Chicago: the same count  *)
(* with the daylight-saving hour added while DST is in force.  Python      *)
(* compares and subtracts two datetimes that share one tzinfo by their     *)
(* wall clock fields, so the model keeps such datetimes as wall readings.  *)
(* A date is a day number counted from 2024-01-01 (a Monday).              *)
(*                                                                         *)
(* Host.  date.today() reads the HOST's local date; the host is either in  *)
(* the trading zone or in Asia/Tokyo.                                      *)
(*                                                                         *)
(* A tick is two steps: refresh_loop (the Tk timer fires and the thread is *)
(* started) and _refresh_once (the whole body of the thread).  The clock   *)
(* reads of one tick up to the fetch (datetime.now(TZ), date.today()) are   *)
(* taken at one instant; append_today reads date.today() after the fetch.  *)
(* An exception of append_today ends the thread where it is raised.        *)
(*                                                                         *)
(* The calendar is the built-in holiday table (the path taken when the     *)
(* `holidays` package is not installed).  The quote source returns JSON    *)
(* numbers or nothing.  The status texts are written with a hyphen for the *)
(* dash of the source.                                                     *)
(*                                                                         *)
(* Two specifications.  Spec is the running program (start, ticks, kill    *)
(* and restart).  CalendarSpec calls the three calendar functions on their *)
(* own, for every date of the years of the holiday table and a margin      *)
(* around them.                                                            *)
(***************************************************************************)
EXTENDS Integers, Sequences, FiniteSets, TLC

VARIABLES
    epoch,        \* first date of the modelled calendar window
    hostZone,     \* the zone of the host machine, read by date.today()
    clock,        \* real time now
    timers,       \* due times of the pending Tk `after` callbacks
    threads,      \* number of _refresh_once threads started and not finished
    time_points,  \* module global time_points
    prices,       \* module global prices
    prev_close,   \* module global prev_close
    current_day,  \* module global current_day
    window,       \* App.open_dt, App.close_dt
    status,       \* text of the status label
    lines,        \* data of the chart line of each ticker (line.set_data)
    files,        \* ~/market/data/<date>/prices.csv, by date
    written,      \* history: the snapshots appended to each date's record
    tampered,     \* history: dates whose record was not written by append_today alone
    reset_day,    \* history: trading date of the last reset of this process
    fetches,      \* history: number of fetching ticks so far
    last,         \* history: what the last step did
    calendar      \* history: the last direct call of a calendar function

vars == <<epoch, hostZone, clock, timers, threads, time_points, prices,
          prev_close, current_day, window, status, lines, files, written,
          tampered, reset_day, fetches, last, calendar>>

-----------------------------------------------------------------------------
(* Bounds of the model *)

\* clock units to one millisecond (datetime has a finer resolution than Tk's timer)
UnitsPerMs == 2
\* the calendar window is the days epoch .. epoch + MaxDays
MaxDays == 3
\* number of fetching ticks in one behaviour
MaxFetches == 2
\* days before and after the years of the holiday table the calendar is asked about
CalMargin == 7

-----------------------------------------------------------------------------
(* datetime arithmetic *)

Second == 1000 * UnitsPerMs
Hour == 3600 * Second
Day == 24 * Hour

Max(a, b) == IF a >= b THEN a ELSE b

IsLeap(y) == y % 4 = 0 /\ (y % 100 # 0 \/ y % 400 = 0)

DaysInMonth(y, m) ==
    IF m \in {4, 6, 9, 11} THEN 30
    ELSE IF m = 2 THEN (IF IsLeap(y) THEN 29 ELSE 28)
    ELSE 31

RECURSIVE DaysBeforeMonth(_, _)
DaysBeforeMonth(y, m) ==
    IF m = 1 THEN 0 ELSE DaysBeforeMonth(y, m - 1) + DaysInMonth(y, m - 1)

RECURSIVE DaysBeforeYear(_)
DaysBeforeYear(y) ==
    IF y = 2024 THEN 0
    ELSE DaysBeforeYear(y - 1) + (IF IsLeap(y - 1) THEN 366 ELSE 365)

\* date(y, m, d) as a day number; 2024-01-01 is day 0
DateOnly(y, m, d) == DaysBeforeYear(y) + DaysBeforeMonth(y, m) + (d - 1)

\* date.weekday(): 0 = Monday .. 6 = Sunday
weekday(d) == d % 7

\* datetime.time(h, m) as clock units after midnight
dtime(h, m) == (h * 3600 + m * 60) * Second

\* .date() and .time() of a datetime (a wall clock reading)
DateOf(w) == epoch + (w \div Day)
TimeOf(w) == w % Day

\* datetime.combine(d, t, tzinfo=TZ)
combine(d, t) == (d - epoch) * Day + t

-----------------------------------------------------------------------------
(* The zones: TZ = America/Chicago, and the host's own zone *)

\* US daylight saving: from the second Sunday of March to the first Sunday
\* of November (the transitions the zone database holds for 2024-2027)
DstPeriods ==
    { <<DateOnly(2024, 3, 10), DateOnly(2024, 11, 3)>>,
      <<DateOnly(2025, 3, 9),  DateOnly(2025, 11, 2)>>,
      <<DateOnly(2026, 3, 8),  DateOnly(2026, 11, 1)>>,
      <<DateOnly(2027, 3, 14), DateOnly(2027, 11, 7)>> }

\* is (date d, time t) at or after (date d0, time t0)
AtOrAfter(d, t, d0, t0) == d > d0 \/ (d = d0 /\ t >= t0)

\* DST is in force at real time s (standard-time reading): from 02:00 standard
\* on the spring day until 01:00 standard (02:00 daylight) on the autumn day
StdInDST(s) ==
    \E p \in DstPeriods :
        /\ AtOrAfter(DateOf(s), TimeOf(s), p[1], 2 * Hour)
        /\ ~AtOrAfter(DateOf(s), TimeOf(s), p[2], 1 * Hour)

\* DST is in force at wall clock reading w
WallInDST(w) ==
    \E p \in DstPeriods :
        /\ AtOrAfter(DateOf(w), TimeOf(w), p[1], 3 * Hour)
        /\ ~AtOrAfter(DateOf(w), TimeOf(w), p[2], 2 * Hour)

\* datetime.now(TZ) at real time s
ToWall(s) == s + (IF StdInDST(s) THEN Hour ELSE 0)

\* the real time at which TZ's wall clock reads w
ToReal(w) == w - (IF WallInDST(w) THEN Hour ELSE 0)

\* utcoffset() of a TZ datetime: -06:00 standard, -05:00 daylight
utcoffset(w) == IF WallInDST(w) THEN -(5 * Hour) ELSE -(6 * Hour)

HostZones == {"America/Chicago", "Asia/Tokyo"}

\* date.today(): the date of the HOST's local clock at real time s
\* (Asia/Tokyo is UTC+9, fifteen hours ahead of Central standard time)
date_today(s) ==
    IF hostZone = "America/Chicago" THEN DateOf(ToWall(s))
    ELSE DateOf(s + 15 * Hour)

-----------------------------------------------------------------------------
(* 1) Configuration *)

TICKERS == <<"SPY", "DIA", "QQQ">>
TickerSet == {TICKERS[i] : i \in DOMAIN TICKERS}
REFRESH_SECONDS == 300
MARKET_OPEN_CT == dtime(8, 30)
MARKET_CLOSE_CT == dtime(15, 0)

\* float | None
None == <<>>
Some(x) == <<x>>

-----------------------------------------------------------------------------
(* 5) Market days and holidays *)

\* the built-in table (the fallback used when the `holidays` package is absent)
_BUILTIN_HOLIDAYS ==
    { DateOnly(2024,1,1), DateOnly(2024,1,15), DateOnly(2024,2,19), DateOnly(2024,3,29),
      DateOnly(2024,5,27), DateOnly(2024,6,19), DateOnly(2024,7,4), DateOnly(2024,9,2),
      DateOnly(2024,11,28), DateOnly(2024,12,25),
      DateOnly(2025,1,1), DateOnly(2025,1,20), DateOnly(2025,2,17), DateOnly(2025,4,18),
      DateOnly(2025,5,26), DateOnly(2025,6,19), DateOnly(2025,7,4), DateOnly(2025,9,1),
      DateOnly(2025,11,27), DateOnly(2025,12,25),
      DateOnly(2026,1,1), DateOnly(2026,1,19), DateOnly(2026,2,16), DateOnly(2026,4,3),
      DateOnly(2026,5,25), DateOnly(2026,6,19), DateOnly(2026,7,3), DateOnly(2026,9,7),
      DateOnly(2026,11,26), DateOnly(2026,12,25),
      DateOnly(2027,1,1), DateOnly(2027,1,18), DateOnly(2027,2,15), DateOnly(2027,3,26),
      DateOnly(2027,5,31), DateOnly(2027,7,5), DateOnly(2027,9,6), DateOnly(2027,11,25),
      DateOnly(2027,12,24) }

is_us_holiday(d) == d \in _BUILTIN_HOLIDAYS

is_market_day(d) ==
    IF weekday(d) >= 5 THEN FALSE
    ELSE IF is_us_holiday(d) THEN FALSE
    ELSE TRUE

\* the loop of next_market_open_after, started at date d
RECURSIVE ScanOpen_not_strict(_, _)
ScanOpen_not_strict(d, now_local) ==
    IF is_market_day(d) /\ combine(d, MARKET_OPEN_CT) >= now_local
    THEN combine(d, MARKET_OPEN_CT)
    ELSE ScanOpen_not_strict(d + 1, now_local)

RECURSIVE ScanOpen(_, _)
ScanOpen(d, now_local) ==
    IF is_market_day(d) /\ combine(d, MARKET_OPEN_CT) > now_local
    THEN combine(d, MARKET_OPEN_CT)
    ELSE ScanOpen(d + 1, now_local)

next_market_open_after(now_local) == ScanOpen(DateOf(now_local), now_local)

\* the outcome of a call of one of the three calendar functions: none of them
\* has a raise statement or an operation that raises for a date or datetime
\* argument, so a call returns
NoCall == [fn |-> "", d |-> 0, now |-> 0, raised |-> FALSE, value |-> FALSE, nxt |-> 0]

call_is_us_holiday(d) ==
    [NoCall EXCEPT !.fn = "is_us_holiday", !.d = d, !.value = is_us_holiday(d)]

call_is_market_day(d) ==
    [NoCall EXCEPT !.fn = "is_market_day", !.d = d, !.value = is_market_day(d)]

call_next_market_open_after(now_local) ==
    [NoCall EXCEPT !.fn = "next_market_open_after", !.now = now_local,
                   !.nxt = next_market_open_after(now_local)]

-----------------------------------------------------------------------------
(* 7) Market-hours helpers *)

is_market_open(now_local) ==
    /\ is_market_day(DateOf(now_local))
    /\ MARKET_OPEN_CT <= TimeOf(now_local)
    /\ TimeOf(now_local) <= MARKET_CLOSE_CT

today_window(now_local) ==
    [open_dt  |-> combine(DateOf(now_local), MARKET_OPEN_CT),
     close_dt |-> combine(DateOf(now_local), MARKET_CLOSE_CT)]

\* max(1, int((dt - now_local).total_seconds() * 1000)): whole milliseconds of
\* the difference of the two wall clock readings
ms_until(dt, now_local) == Max(1, (dt - now_local) \div UnitsPerMs)

-----------------------------------------------------------------------------
(* 4) Storage (CSV) *)

\* the prices the quote source reports (floats)
Price == {100, 250}

\* f"{x}" of a float, and float(v) of a text
format_float(x) == IF x = 100 THEN "100.0" ELSE "250.0"
IsFloatText(v) == v \in {"100.0", "250.0"}
parse_float(v) == IF v = "100.0" THEN 100 ELSE 250

\* ts_local.isoformat(): the wall clock fields followed by the UTC offset
isoformat_fixed_offset(w) == [ok |-> TRUE, wall |-> w, utcoffset |-> -(6 * Hour)]

isoformat(w) == [ok |-> TRUE, wall |-> w, utcoffset |-> utcoffset(w)]

\* a ts cell datetime.fromisoformat rejects
JunkTs == [ok |-> FALSE, wall |-> 0, utcoffset |-> 0]

\* datetime.fromisoformat(c).astimezone(TZ): the instant wall - utcoffset (UTC),
\* six hours less on the standard-time count, read on TZ's wall clock
astimezone(c) == ToWall(c.wall - c.utcoffset - 6 * Hour)

NoFile == [exists |-> FALSE, header |-> <<>>, rows |-> <<>>]

\* the key of today's record: today_csv_path() at real time s
today_csv_path(s) == date_today(s)

\* the row append_today writes
CsvRow(ts_local, snapshot) ==
    [ts    |-> isoformat(ts_local),
     cells |-> [t \in TickerSet |->
                  IF snapshot[t] # None THEN format_float(snapshot[t][1]) ELSE ""]]

\* append_today on record f
append_today(f, ts_local, snapshot) ==
    [exists |-> TRUE,
     header |-> IF ~f.exists THEN <<"ts">> \o TICKERS ELSE f.header,
     rows   |-> Append(f.rows, CsvRow(ts_local, snapshot))]

EmptyPrices == [t \in TickerSet |-> <<>>]

\* the inner loop of load_today over TICKERS[k..]: stops where float(v) raises
RECURSIVE LoadCells(_, _, _)
LoadCells(row, k, pr) ==
    IF k > Len(TICKERS) THEN [prices |-> pr, raised |-> FALSE]
    ELSE LET t == TICKERS[k]
             v == row.cells[t]
         IN  IF v \in {"", "nan"}
             THEN LoadCells(row, k + 1, [pr EXCEPT ![t] = Append(@, None)])
             ELSE IF IsFloatText(v)
             THEN LoadCells(row, k + 1, [pr EXCEPT ![t] = Append(@, Some(parse_float(v)))])
             ELSE [prices |-> pr, raised |-> TRUE]

\* the outer loop of load_today over rows[i..]: an exception ends the loop and
\* is logged; what was appended before it stays in the globals
RECURSIVE LoadRows_prepends(_, _, _, _)
LoadRows_prepends(rows, i, tp, pr) ==
    IF i > Len(rows) THEN [time_points |-> tp, prices |-> pr]
    ELSE IF ~rows[i].ts.ok THEN [time_points |-> tp, prices |-> pr]
    ELSE LET tp2 == <<astimezone(rows[i].ts)>> \o tp
             c   == LoadCells(rows[i], 1, pr)
         IN  IF c.raised THEN [time_points |-> tp2, prices |-> c.prices]
             ELSE LoadRows_prepends(rows, i + 1, tp2, c.prices)

RECURSIVE LoadRows(_, _, _, _)
LoadRows(rows, i, tp, pr) ==
    IF i > Len(rows) THEN [time_points |-> tp, prices |-> pr]
    ELSE IF ~rows[i].ts.ok THEN [time_points |-> tp, prices |-> pr]
    ELSE LET tp2 == Append(tp, astimezone(rows[i].ts))
             c   == LoadCells(rows[i], 1, pr)
         IN  IF c.raised THEN [time_points |-> tp2, prices |-> c.prices]
             ELSE LoadRows(rows, i + 1, tp2, c.prices)

\* load_today on today's record f, the globals being empty (process start)
load_today(f) ==
    IF ~f.exists THEN [time_points |-> <<>>, prices |-> EmptyPrices]
    ELSE LoadRows(f.rows, 1, <<>>, EmptyPrices)

-----------------------------------------------------------------------------
(* 6) The quote source *)

\* what get_quote returns for the three tickers in one tick: a JSON number or
\* nothing for "c" and for "pc"; (None, None) on an error or a 429
Quote(c, pc) == [c |-> c, pc |-> pc]
QuoteScenarios ==
    { [t \in TickerSet |-> Quote(Some(100), Some(90))],
      [t \in TickerSet |-> IF t = "SPY" THEN Quote(None, Some(95))
                           ELSE IF t = "DIA" THEN Quote(Some(250), None)
                           ELSE Quote(None, None)] }
NoQuotes == [t \in TickerSet |-> Quote(None, None)]

\* time a fetching tick takes: the three sleeps of 0.20 s
FetchDurations == {600 * UnitsPerMs}

-----------------------------------------------------------------------------
(* The environment: calendar windows, instants at which things happen *)

\* Fri 2025-03-07 .. (DST starts on Sunday 03-09), and
\* Wed 2025-06-18 .. (Thursday 06-19 is a holiday)
Epochs == {DateOnly(2025, 3, 7), DateOnly(2025, 6, 18)}

\* wall clock times of day at which a timer fires late: the two ends of the
\* trading window and the second before and after it on a market day, the
\* open time on any other day
SampleTimes(d) ==
    IF is_market_day(d)
    THEN { MARKET_OPEN_CT - Second, MARKET_OPEN_CT,
           MARKET_CLOSE_CT, MARKET_CLOSE_CT + Second }
    ELSE { MARKET_OPEN_CT }

SampleInstants ==
    UNION { { ToReal(combine(epoch + k, t)) : t \in SampleTimes(epoch + k) } :
            k \in 0..MaxDays }

\* the process is first started on the first day (a market day), shortly
\* before the open and off the full millisecond, or at the close; or on the
\* second day (a Saturday, a holiday)
StartInstants ==
    { ToReal(combine(epoch, MARKET_OPEN_CT - Second)) - 250 * UnitsPerMs + 1,
      ToReal(combine(epoch, MARKET_CLOSE_CT)),
      ToReal(combine(epoch + 1, MARKET_OPEN_CT)) }

Horizon == (MaxDays + 1) * Day

\* a snapshot as load_today rebuilds it and as the tick appends it
Snap(ts, snapshot) == [ts |-> ts, snapshot |-> snapshot]

\* records an earlier run of the program left for the first day (a market
\* day), written between 11:00 and the start of the process
EarlierSnaps ==
    << Snap(combine(epoch, dtime(11, 0)),
            [t \in TickerSet |-> IF t = "SPY" THEN None ELSE Some(100)]),
       Snap(combine(epoch, dtime(11, 5)),
            [t \in TickerSet |-> Some(250)]) >>

RECURSIVE AppendAll(_, _, _)
AppendAll(f, snaps, i) ==
    IF i > Len(snaps) THEN f
    ELSE AppendAll(append_today(f, snaps[i].ts, snaps[i].snapshot), snaps, i + 1)

GoodRecords == { AppendAll(NoFile, SubSeq(EarlierSnaps, 1, n), 1) : n \in 1..2 }

\* the same record damaged afterwards: a timestamp that does not parse (last
\* row, first row), a price that does not parse, a price edited to "nan"
FullRecord == AppendAll(NoFile, EarlierSnaps, 1)
BadRecords ==
    { [FullRecord EXCEPT !.rows[2].ts = JunkTs],
      [FullRecord EXCEPT !.rows[1].ts = JunkTs],
      [FullRecord EXCEPT !.rows[2].cells["DIA"] = "junk"],
      [FullRecord EXCEPT !.rows[1].cells["DIA"] = "nan"] }

\* the snapshots append_today wrote to a record produced by AppendAll
SnapsOf(f) == SubSeq(EarlierSnaps, 1, Len(f.rows))

Dates == epoch .. (epoch + MaxDays + 1)

-----------------------------------------------------------------------------
(* 11) Redraw charts *)

Min(a, b) == IF a <= b THEN a ELSE b

\* the lines as App.__init__ plots them: ax.plot([], [])
EmptyLines == [t \in TickerSet |-> [x |-> <<>>, y |-> <<>>]]

\* lines 399-403: y = [v for v in prices[t] if v is not None],
\* x = time_points[:len(y)], line.set_data(x, y)
_redraw_chart(tp, pr) ==
    [t \in TickerSet |->
        LET present == SelectSeq(pr[t], LAMBDA v : v # None)
            y == [i \in 1..Len(present) |-> present[i][1]]
        IN  [x |-> SubSeq(tp, 1, Min(Len(y), Len(tp))), y |-> y]]

-----------------------------------------------------------------------------
(* 12) Process start: module import, main(), App.__init__ *)

NoLast == [kind |-> "main", path |-> "", reset |-> FALSE, now |-> 0, nxt |-> 0,
           delay |-> 0, quotes |-> NoQuotes, raised |-> FALSE]

\* the process starts at real time s over the records fs
main(s, fs) ==
    LET loaded == load_today(fs[today_csv_path(s)])
    IN  /\ clock' = s
        /\ current_day' = date_today(s)
        /\ prev_close' = [t \in TickerSet |-> None]
        /\ time_points' = loaded.time_points
        /\ prices' = loaded.prices
        /\ window' = today_window(ToWall(s))
        /\ status' = ""
        /\ lines' = EmptyLines
        /\ timers' = <<s + 250 * UnitsPerMs>>
        /\ threads' = 0
        /\ reset_day' = -1
        /\ last' = [NoLast EXCEPT !.now = ToWall(s)]

Init ==
    /\ epoch \in Epochs
    /\ hostZone \in HostZones
    /\ hostZone = "Asia/Tokyo" => epoch = DateOnly(2025, 3, 7)
    /\ \E s \in StartInstants :
         /\ clock = s
         /\ \E f \in {NoFile} \cup
                     (IF s = ToReal(combine(epoch, MARKET_CLOSE_CT))
                      THEN GoodRecords \cup BadRecords ELSE {}) :
              /\ files = [d \in Dates |-> IF d = today_csv_path(s) THEN f ELSE NoFile]
              /\ written = [d \in Dates |->
                              IF d = today_csv_path(s) /\ f \in GoodRecords
                              THEN SnapsOf(f) ELSE <<>>]
              /\ tampered = [d \in Dates |-> d = today_csv_path(s) /\ f \in BadRecords]
         /\ LET loaded == load_today(files[today_csv_path(s)])
            IN  /\ time_points = loaded.time_points
                /\ prices = loaded.prices
         /\ current_day = date_today(s)
         /\ window = today_window(ToWall(s))
         /\ timers = <<s + 250 * UnitsPerMs>>
         /\ last = [NoLast EXCEPT !.now = ToWall(s)]
    /\ prev_close = [t \in TickerSet |-> None]
    /\ status = ""
    /\ lines = EmptyLines
    /\ threads = 0
    /\ reset_day = -1
    /\ fetches = 0
    /\ calendar = NoCall

\* the process is killed after a fetching tick (also one that died in its
\* append) and started again
Restart ==
    /\ last.kind = "_refresh_once"
    /\ last.path = "fetch"
    /\ main(clock, files)
    /\ UNCHANGED <<epoch, hostZone, files, written, tampered, fetches, calendar>>

-----------------------------------------------------------------------------
(* 9) The refresh loop *)

\* a Tk timer that fired is gone
RemoveAt_keeps(seq, i) == seq

RemoveAt(seq, i) == SubSeq(seq, 1, i - 1) \o SubSeq(seq, i + 1, Len(seq))

\* line 323: a new calendar day, a market day, at or after the open
ResetDue_any_day(today, now_local) ==
    /\ today # current_day
    /\ TimeOf(now_local) >= MARKET_OPEN_CT

ResetDue(today, now_local) ==
    /\ today # current_day
    /\ is_market_day(DateOf(now_local))
    /\ TimeOf(now_local) >= MARKET_OPEN_CT

\* lines 325-327: the reset clears the series in the session globals g
ResetSession_clears_prev_close(g) ==
    [g EXCEPT !.time_points = <<>>, !.prices = EmptyPrices,
              !.prev_close = [t \in TickerSet |-> None]]

ResetSession(g) == [g EXCEPT !.time_points = <<>>, !.prices = EmptyPrices]

\* lines 334-348: which way the tick goes
Path_close_exclusive(now_local) ==
    IF ~is_market_day(DateOf(now_local)) THEN "hold_day"
    ELSE IF ~(MARKET_OPEN_CT <= TimeOf(now_local) /\ TimeOf(now_local) < MARKET_CLOSE_CT)
    THEN "hold_time"
    ELSE "fetch"

Path(now_local) ==
    IF ~is_market_day(DateOf(now_local)) THEN "hold_day"
    ELSE IF ~(MARKET_OPEN_CT <= TimeOf(now_local) /\ TimeOf(now_local) <= MARKET_CLOSE_CT)
    THEN "hold_time"
    ELSE "fetch"

\* lines 351-357, the loop over TICKERS: the snapshot built from the quotes q
snapshot_of_all_or_nothing(q) ==
    [t \in TickerSet |->
        IF \E u \in TickerSet : q[u].c = None THEN None ELSE q[t].c]

snapshot_of(q) == [t \in TickerSet |-> q[t].c]

\* lines 354-355: prev_close after the loop, pc being prev_close before it
prev_close_after_overwrites(pc, q) == [t \in TickerSet |-> q[t].pc]

prev_close_after(pc, q) ==
    [t \in TickerSet |-> IF q[t].pc # None THEN q[t].pc ELSE pc[t]]

\* A timer fires, at its due time or later (the host was busy or suspended),
\* and refresh_loop starts the thread.
refresh_loop ==
    /\ \E i \in DOMAIN timers :
         \E s \in {Max(clock, timers[i])} \cup {x \in SampleInstants : x > Max(clock, timers[i])} :
            /\ s <= Horizon
            /\ Path(ToWall(s)) = "fetch" => fetches < MaxFetches
            /\ clock' = s
            /\ timers' = RemoveAt(timers, i)
            /\ last' = [NoLast EXCEPT !.kind = "refresh_loop", !.now = ToWall(s)]
    /\ threads' = threads + 1
    /\ UNCHANGED <<epoch, hostZone, time_points, prices, prev_close, current_day,
                   window, status, lines, files, written, tampered, reset_day,
                   fetches, calendar>>

\* One run of _refresh_once, from datetime.now(TZ) to the end of the thread.
_refresh_once ==
    /\ threads > 0
    /\ LET now_local == ToWall(clock)
           today     == date_today(clock)
           reset     == ResetDue(today, now_local)
           g0        == [time_points |-> time_points, prices |-> prices,
                         prev_close |-> prev_close]
           g1        == IF reset THEN ResetSession(g0) ELSE g0
           path      == Path(now_local)
           nxt       == next_market_open_after(now_local)
       IN  /\ current_day' = IF reset THEN today ELSE current_day
           /\ window' = IF reset THEN today_window(now_local) ELSE window
           /\ reset_day' = IF reset THEN DateOf(now_local) ELSE reset_day
           /\ threads' = threads - 1
           /\ fetches' = IF path = "fetch" THEN fetches + 1 ELSE fetches
           /\ IF path # "fetch"
              THEN /\ status' = IF path = "hold_day"
                                THEN "Market Closed (Holiday/Weekend) - holding last session"
                                ELSE "Market Closed - charts reset next market day 8:30 AM CT"
                   /\ timers' = Append(timers, clock + ms_until(nxt, now_local) * UnitsPerMs)
                   /\ time_points' = g1.time_points
                   /\ prices' = g1.prices
                   /\ prev_close' = g1.prev_close
                   /\ last' = [NoLast EXCEPT !.kind = "_refresh_once", !.path = path,
                                 !.reset = reset, !.now = now_local, !.nxt = nxt,
                                 !.delay = ms_until(nxt, now_local)]
                   /\ UNCHANGED <<clock, files, written, lines>>
              ELSE \E q \in QuoteScenarios, dur \in FetchDurations, raised \in BOOLEAN :
                     LET snapshot == snapshot_of(q)
                         key      == today_csv_path(clock + dur)
                     IN  /\ status' = ""
                         /\ prev_close' = prev_close_after(g1.prev_close, q)
                         /\ clock' = clock + dur
                         /\ time_points' = Append(g1.time_points, now_local)
                         /\ prices' = [t \in TickerSet |->
                               Append(g1.prices[t], snapshot[t])]
                         /\ IF raised
                            THEN UNCHANGED <<files, written, timers, lines>>
                            ELSE /\ lines' = _redraw_chart(time_points', prices')
                                 /\ files' = [files EXCEPT ![key] =
                                       append_today(@, now_local, snapshot)]
                                 /\ written' = [written EXCEPT ![key] =
                                       Append(@, Snap(now_local, snapshot))]
                                 /\ timers' = Append(timers,
                                       clock + dur + REFRESH_SECONDS * 1000 * UnitsPerMs)
                         /\ last' = [NoLast EXCEPT !.kind = "_refresh_once", !.path = path,
                                 !.reset = reset, !.now = now_local, !.quotes = q,
                                 !.raised = raised,
                                 !.delay = IF raised THEN 0 ELSE REFRESH_SECONDS * 1000]
    /\ UNCHANGED <<epoch, hostZone, tampered, calendar>>

Next ==
    \/ refresh_loop
    \/ _refresh_once
    \/ Restart

Spec == Init /\ [][Next]_vars

-----------------------------------------------------------------------------
(* The calendar functions called on their own *)

\* the years the built-in table covers ("Minimal built-in for 2024-2027")
TableFirst == DateOnly(2024, 1, 1)
TableLast == DateOnly(2027, 12, 31)

\* the dates asked about, and the times of day of the datetimes asked about
CalDates == (TableFirst - CalMargin) .. (TableLast + CalMargin)
CalTimes == { MARKET_OPEN_CT - Second, MARKET_OPEN_CT, MARKET_CLOSE_CT + Second }

\* the module is imported, no process is started; the date asked about is the
\* first date of the calendar window
CalInit ==
    /\ epoch \in CalDates
    /\ hostZone = "America/Chicago"
    /\ clock = 0
    /\ timers = <<>>
    /\ threads = 0
    /\ time_points = <<>>
    /\ prices = EmptyPrices
    /\ prev_close = [t \in TickerSet |-> None]
    /\ current_day = epoch
    /\ window = today_window(0)
    /\ status = ""
    /\ lines = EmptyLines
    /\ files = [d \in Dates |-> NoFile]
    /\ written = [d \in Dates |-> <<>>]
    /\ tampered = [d \in Dates |-> FALSE]
    /\ reset_day = -1
    /\ fetches = 0
    /\ last = NoLast
    /\ calendar = NoCall

CalFrame ==
    UNCHANGED <<epoch, hostZone, clock, timers, threads, time_points, prices,
                prev_close, current_day, window, status, lines, files, written,
                tampered, reset_day, fetches, last>>

QueryHoliday ==
    /\ calendar' = call_is_us_holiday(epoch)
    /\ CalFrame

QueryMarketDay ==
    /\ calendar' = call_is_market_day(epoch)
    /\ CalFrame

QueryNextOpen ==
    /\ \E t \in CalTimes : calendar' = call_next_market_open_after(combine(epoch, t))
    /\ CalFrame

CalNext ==
    \/ QueryHoliday
    \/ QueryMarketDay
    \/ QueryNextOpen

CalendarSpec == CalInit /\ [][CalNext]_vars

-----------------------------------------------------------------------------
(* Properties *)

\* the last step was a run of _refresh_once, holding or fetching
Ticked == last.kind = "_refresh_once"
Held == Ticked /\ last.path \in {"hold_day", "hold_time"}
Fetched == Ticked /\ last.path = "fetch"

\* d is a market day, and w lies in the trading window of a market day
MarketDay(d) == weekday(d) \in 0..4 /\ d \notin _BUILTIN_HOLIDAYS
InTradingWindow(w) ==
    /\ MarketDay(DateOf(w))
    /\ dtime(8, 30) <= TimeOf(w)
    /\ TimeOf(w) <= dtime(15, 0)

\* the in-memory series is empty
SeriesEmpty == time_points = <<>> /\ \A t \in TickerSet : prices[t] = <<>>

\* the in-memory series holds exactly the snapshots snaps, in their order
SeriesIs(snaps) ==
    /\ time_points = [i \in 1..Len(snaps) |-> snaps[i].ts]
    /\ \A t \in TickerSet :
         prices[t] = [i \in 1..Len(snaps) |-> snaps[i].snapshot[t]]

\* C1: a tick takes the FETCHING path (and records a snapshot stamped now) if
\* and only if now is on a market day with 08:30 <= time <= 15:00, both ends
\* included; every other tick takes a HOLDING path (and shows a closed status).
C1_FetchIffInWindow ==
    Ticked =>
        /\ last.path \in {"fetch", "hold_day", "hold_time"}
        /\ (last.path = "fetch") <=> InTradingWindow(last.now)
        /\ last.path = "fetch" =>
              /\ time_points # <<>>
              /\ time_points[Len(time_points)] = last.now
              /\ status = ""
        /\ last.path # "fetch" => status # ""

\* C1 witness: a tick at exactly 15:00:00 on a market day has fetched
C1_Witness ==
    /\ Fetched
    /\ TimeOf(last.now) = dtime(15, 0)
    /\ time_points[Len(time_points)] = last.now

\* C2: after any sequence of ticks exactly one tick is pending or running
\* (every tick schedules exactly one future tick).
C2_ExactlyOneTick == Len(timers) + threads = 1

\* C3: a FETCHING tick whose append to today's record raised has still
\* scheduled the next tick.
C3_WriteFailureSchedules == (Fetched /\ last.raised) => Len(timers) = 1

\* C4: while the process stays running the series is cleared at most once per
\* trading date, and after a tick at or after the open of a market day the
\* series holds no snapshot of another date.
C4_ClearedOncePerDate ==
    /\ [][(last'.kind = "_refresh_once" /\ last'.reset)
            => reset_day # DateOf(last'.now)]_vars
    /\ [](( /\ Ticked
            /\ MarketDay(DateOf(last.now))
            /\ TimeOf(last.now) >= dtime(8, 30) )
          => \A i \in DOMAIN time_points :
                DateOf(time_points[i]) = DateOf(last.now))

\* C5 as stated: a tick outside the trading window leaves the in-memory series
\* and the durable records exactly as they were.
C5_HoldLeavesSeries ==
    [][(last'.kind = "_refresh_once" /\ last'.path # "fetch")
         => /\ time_points' = time_points
            /\ prices' = prices
            /\ files' = files]_vars

\* C5 amended: a tick outside the trading window fetches nothing and leaves
\* the durable records and the previous closes as they were; it leaves the
\* in-memory series as it was unless it is a tick after the close of a market
\* day on a host date other than the current-date marker: that tick resets,
\* and the series is empty after it.
C5_HoldLeavesSeriesUnlessNewDay ==
    [][(last'.kind = "_refresh_once" /\ last'.path # "fetch")
         => /\ files' = files
            /\ fetches' = fetches
            /\ prev_close' = prev_close
            /\ IF /\ date_today(clock) # current_day
                  /\ MarketDay(DateOf(ToWall(clock)))
                  /\ TimeOf(ToWall(clock)) > dtime(15, 0)
               THEN SeriesEmpty'
               ELSE time_points' = time_points /\ prices' = prices]_vars

\* C5 witness: a holding tick after the close of a new market day has cleared
\* the series of an earlier date
C5_Witness ==
    /\ Held
    /\ last.reset
    /\ SeriesEmpty
    /\ \E d \in Dates : d < current_day /\ written[d] # <<>>

\* C6: a HOLDING tick schedules its single next tick at the instant
\* nextMarketOpenAfter(now), to the millisecond of the timer.
C6_HoldSchedulesNextOpen ==
    Held =>
        /\ Len(timers) = 1
        /\ timers[1] - ToReal(next_market_open_after(last.now)) < UnitsPerMs
        /\ ToReal(next_market_open_after(last.now)) - timers[1] < UnitsPerMs

\* r is the earliest 08:30 of a market day strictly after w
IsNextOpen(r, w) ==
    /\ r > w
    /\ MarketDay(DateOf(r))
    /\ TimeOf(r) = dtime(8, 30)
    /\ \A d \in DateOf(w)..DateOf(r) :
          (MarketDay(d) /\ combine(d, dtime(8, 30)) > w) => combine(d, dtime(8, 30)) >= r

\* C7: for the now of every step and for every sample instant,
\* next_market_open_after(now) is the earliest instant strictly after now
\* that is 08:30 of a market day.
C7_NextOpenIsEarliest ==
    /\ \A w \in {last.now} \cup {ToWall(x) : x \in SampleInstants} :
          IsNextOpen(next_market_open_after(w), w)
    /\ Held => IsNextOpen(last.nxt, last.now)

\* C7 witness: a tick after the close has computed an open more than a day
\* ahead (over a weekend or a holiday)
C7_Witness ==
    /\ Held
    /\ TimeOf(last.now) > dtime(15, 0)
    /\ DateOf(last.nxt) > DateOf(last.now) + 1

\* C8: a process started on a date whose record holds only what append_today
\* wrote has in memory exactly the snapshots appended to that record, in
\* their order.
C8_RoundTrip ==
    (last.kind = "main" /\ ~tampered[current_day]) => SeriesIs(written[current_day])

\* C8 witness: the process started again after two fetching ticks of the same
\* date, one of them with an absent price, and reloaded both snapshots
C8_Witness ==
    /\ last.kind = "main"
    /\ fetches = 2
    /\ ~tampered[current_day]
    /\ Len(time_points) = 2
    /\ prices["SPY"][1] = None
    /\ prices["DIA"][1] # None
    /\ Len(files[current_day].rows) = 2

\* a row load_today reads without an exception
WellFormedRow(r) ==
    /\ r.ts.ok
    /\ \A t \in TickerSet : r.cells[t] \in {"", "nan"} \/ IsFloatText(r.cells[t])
Malformed(f) == \E i \in DOMAIN f.rows : ~WellFormedRow(f.rows[i])

\* C9: a process started over a missing or malformed record of today starts
\* with an empty in-memory series.
C9_MalformedStartsEmpty ==
    (last.kind = "main" /\ (~files[current_day].exists \/ Malformed(files[current_day])))
        => SeriesEmpty

\* C10: a tick that resets leaves every ticker's previous close as it was
\* (only a present previous close the same tick fetched replaces it) and the
\* records of prior dates as they were, and the series holds nothing but the
\* snapshot the tick itself recorded.
C10_ResetFrame ==
    [][(last'.kind = "_refresh_once" /\ last'.reset)
         => /\ \A t \in TickerSet :
                  prev_close'[t] = IF last'.quotes[t].pc # None
                                   THEN last'.quotes[t].pc ELSE prev_close[t]
            /\ \A d \in Dates : d < current_day' => files'[d] = files[d]
            /\ IF last'.path = "fetch"
               THEN /\ time_points' = <<last'.now>>
                    /\ \A t \in TickerSet : prices'[t] = <<last'.quotes[t].c>>
               ELSE SeriesEmpty']_vars

\* C10 witness: a reset has cleared the series and kept a previous close and
\* the record of a prior date
C10_Witness ==
    /\ Held
    /\ last.reset
    /\ SeriesEmpty
    /\ prev_close["SPY"] # None
    /\ \E d \in Dates : d < current_day /\ files[d].rows # <<>>

\* the last element of a sequence
LastOf(seq) == seq[Len(seq)]

\* C11: a FETCHING tick appends exactly one snapshot, stamped now, holding an
\* entry for every configured ticker; a ticker's entry is what that ticker's
\* own query returned as current price (absent when it failed or was rate
\* limited), whatever the queries of the other tickers returned.
C11_SnapshotPerTicker ==
    [][(last'.kind = "_refresh_once" /\ last'.path = "fetch")
         => /\ time_points' = Append(IF last'.reset THEN <<>> ELSE time_points, last'.now)
            /\ DOMAIN prices' = TickerSet
            /\ \A t \in TickerSet :
                  prices'[t] = Append(IF last'.reset THEN <<>> ELSE prices[t],
                                      last'.quotes[t].c)]_vars

\* C11 witness: a tick in which the query of SPY failed and the query of DIA
\* succeeded has recorded SPY absent and DIA present
C11_Witness ==
    /\ Fetched
    /\ last.quotes["SPY"].c = None
    /\ last.quotes["DIA"].c = Some(250)
    /\ LastOf(prices["SPY"]) = None
    /\ LastOf(prices["DIA"]) = Some(250)
    /\ LastOf(time_points) = last.now

\* C12: the day rollover and the key of the durable record follow the date of
\* now in the trading zone, whatever the zone of the host: a tick that resets
\* discards no snapshot of its own trading-zone date (the series is never
\* cleared between two FETCHING ticks of one trading-zone date), and a
\* FETCHING tick writes its snapshot to the record of the trading-zone date
\* of now.
C12_TradingZoneDates ==
    [][(last'.kind = "_refresh_once")
         => /\ last'.reset =>
                  \A i \in DOMAIN time_points :
                      DateOf(time_points[i]) # DateOf(last'.now)
            /\ (last'.path = "fetch" /\ ~last'.raised) =>
                  written'[DateOf(last'.now)] =
                      Append(written[DateOf(last'.now)],
                             Snap(last'.now, snapshot_of(last'.quotes)))]_vars

\* C13: at most one tick is in flight: never two threads, never a pending
\* timer while a thread runs, never two pending timers; and a timer is set
\* only by the step that ends a tick's work (after its queries, its append
\* and its presentation update) or by the start of the process.
C13_OneTickInFlight ==
    /\ [](Len(timers) + threads <= 1)
    /\ [][Len(timers') > Len(timers)
            => /\ threads' = 0
               /\ last'.kind \in {"_refresh_once", "main"}
               /\ last'.kind = "_refresh_once" => threads = 1]_vars

\* C13 witness: after a finished fetching tick the next tick's thread runs
\* and nothing else is pending
C13_Witness ==
    /\ threads = 1
    /\ timers = <<>>
    /\ fetches >= 1
    /\ last.kind = "refresh_loop"

\* C14: in every reachable state the timestamps of the in-memory series are
\* strictly increasing in sequence order.
C14_TimestampsIncrease ==
    \A i \in DOMAIN time_points :
        \A j \in DOMAIN time_points : i < j => time_points[i] < time_points[j]

\* C14 witness: a snapshot loaded at startup (the previous close fetched with
\* it is gone with the old process) and a second one appended by a fetching
\* tick of the new process
C14_Witness ==
    /\ Fetched
    /\ ~last.reset
    /\ Len(time_points) = 2
    /\ prices["DIA"][1] = Some(100)
    /\ prev_close["DIA"] = None
    /\ time_points[1] < time_points[2]

\* C15: while the process runs, the stored previous close of a ticker changes
\* only in a FETCHING tick in which that ticker's query returned a present
\* previous close, and then becomes exactly that value (also when the same
\* query returned no current price); an absent previous close in the answer,
\* a HOLDING tick and a reset leave it as it was, so a present previous close
\* never becomes absent.
C15_PrevCloseOverwrite ==
    [][last'.kind # "main"
         => \A t \in TickerSet :
              /\ prev_close'[t] =
                    IF /\ last'.kind = "_refresh_once"
                       /\ last'.path = "fetch"
                       /\ last'.quotes[t].pc # None
                    THEN last'.quotes[t].pc
                    ELSE prev_close[t]
              /\ prev_close[t] # None => prev_close'[t] # None]_vars

\* C15 witness: a tick in which SPY returned a previous close without a
\* current price and DIA returned no previous close has overwritten the one
\* and kept the other
C15_Witness ==
    /\ Fetched
    /\ last.quotes["SPY"] = Quote(None, Some(95))
    /\ last.quotes["DIA"].pc = None
    /\ prev_close["SPY"] = Some(95)
    /\ prev_close["DIA"] = Some(90)

\* C16: a call of is_us_holiday or is_market_day for a date outside the years
\* the holiday table covers raises an error, and next_market_open_after raises
\* one when its scan runs past the last date the table covers (it returns no
\* open of a later date).
C16_OutOfRangeFails ==
    /\ ( /\ calendar.fn \in {"is_us_holiday", "is_market_day"}
         /\ calendar.d \notin TableFirst..TableLast ) => calendar.raised
    /\ ( /\ calendar.fn = "next_market_open_after"
         /\ ~calendar.raised ) => DateOf(calendar.nxt) <= TableLast

\* the year of a date of 2024-2027
YearOf(d) == CHOOSE y \in 2024..2027 : DateOnly(y, 1, 1) <= d /\ d <= DateOnly(y, 12, 31)

\* the n-th and the last weekday wd (0 = Monday) of month m of year y
NthWeekday(y, m, wd, n) ==
    DateOnly(y, m, 1) + ((wd - weekday(DateOnly(y, m, 1))) % 7) + 7 * (n - 1)
LastWeekday(y, m, wd) ==
    LET e == DateOnly(y, m, DaysInMonth(y, m)) IN e - ((weekday(e) - wd) % 7)

\* a holiday of a fixed date is observed on the Friday before a Saturday and
\* on the Monday after a Sunday
Observed(d) == IF weekday(d) = 5 THEN d - 1 ELSE IF weekday(d) = 6 THEN d + 1 ELSE d

\* Easter Sunday of year y (Gregorian computus)
Easter(y) ==
    LET a == y % 19
        b == y \div 100
        c == y % 100
        h == (19 * a + b - (b \div 4) - ((b - ((b + 8) \div 25) + 1) \div 3) + 15) % 30
        l == (32 + 2 * (b % 4) + 2 * (c \div 4) - h - (c % 4)) % 7
        m == (a + 11 * h + 22 * l) \div 451
        n == h + l - 7 * m + 114
    IN  DateOnly(y, n \div 31, (n % 31) + 1)

\* the observed dates of the ten equity-market holidays of year y
MarketHolidays(y) ==
    { Observed(DateOnly(y, 1, 1)),     \* New Year's Day
      NthWeekday(y, 1, 0, 3),          \* Martin Luther King Jr. Day
      NthWeekday(y, 2, 0, 3),          \* Washington's Birthday
      Easter(y) - 2,                   \* Good Friday
      LastWeekday(y, 5, 0),            \* Memorial Day
      Observed(DateOnly(y, 6, 19)),    \* Juneteenth
      Observed(DateOnly(y, 7, 4)),     \* Independence Day
      NthWeekday(y, 9, 0, 1),          \* Labor Day
      NthWeekday(y, 11, 3, 4),         \* Thanksgiving
      Observed(DateOnly(y, 12, 25)) }  \* Christmas

\* C17: for every date d of 2024-2027, is_market_day(d) is false when d is a
\* Saturday, a Sunday or the observed date of one of the ten market holidays
\* of its year, and true for every other date.
C17_MarketDayTable ==
    ( /\ calendar.fn = "is_market_day"
      /\ calendar.d \in TableFirst..TableLast )
        => ( calendar.value <=>
               ~ ( \/ weekday(calendar.d) \in {5, 6}
                   \/ calendar.d \in MarketHolidays(YearOf(calendar.d)) ) )

\* C18: every FETCHING tick has scheduled its single next tick five minutes
\* after the moment the tick ended (not after the moment fetching started),
\* whatever its queries returned.
C18_FixedInterval ==
    Fetched =>
        /\ Len(timers) = 1
        /\ timers[1] = clock + 5 * 60 * 1000 * UnitsPerMs
        /\ last.delay = 5 * 60 * 1000
        /\ timers[1] > ToReal(last.now) + 5 * 60 * 1000 * UnitsPerMs

\* C19: in every reachable state the list of timestamps and every ticker's
\* list of prices have the same length.
C19_EqualLengths == \A t \in TickerSet : Len(prices[t]) = Len(time_points)

\* the present prices of ps[i..], each with the timestamp of its own snapshot
RECURSIVE PresentPoints(_, _, _)
PresentPoints(tp, ps, i) ==
    IF i > Len(ps) \/ i > Len(tp) THEN <<>>
    ELSE (IF ps[i] # None THEN << <<tp[i], ps[i][1]>> >> ELSE <<>>)
         \o PresentPoints(tp, ps, i + 1)

\* the points (x[i], y[i]) of a chart line
PointsOf(line) == [i \in 1..Min(Len(line.x), Len(line.y)) |-> <<line.x[i], line.y[i]>>]

\* C20: the points a FETCHING tick hands to the chart of a ticker are exactly
\* the present prices of that ticker, each paired with the timestamp of the
\* snapshot it was recorded in.
C20_ChartPoints ==
    (Fetched /\ ~last.raised) =>
        \A t \in TickerSet :
            /\ Len(lines[t].x) = Len(lines[t].y)
            /\ PointsOf(lines[t]) = PresentPoints(time_points, prices[t], 1)

====
